---- MODULE Spec2Model ----
(***************************************************************************)
(* mm-mongo: a typed document-mapping layer over a MongoDB collection.     *)
(*                                                                         *)
(* The state is the database side of one collection (its existence, its    *)
(* validator, its indexes, its documents), one MongoCollection handle and  *)
(* the outcome of the handle's last call.  Every method of                 *)
(* MongoCollection is one action.  The storage primitives the methods      *)
(* forward to (insert_one, find_one, update_one, ...) are modelled by      *)
(* their MongoDB semantics inside the action that calls them.              *)
(***************************************************************************)
EXTENDS Integers, Sequences, FiniteSets, TLC

VARIABLES
    cfg,            \* the Model class: __collection__, __indexes__, __validator__
    handle,         \* the MongoCollection object: "none", then the database call
                    \* __init__ makes next, then "ready" or "failed"
    collExists,     \* the collection name is in database.list_collection_names()
    collValidator,  \* the collection has the Model's validator attached
    collIndexes,    \* the collection has the Model's indexes
    docs,           \* the stored documents, a set of functions field -> value
    nextOid,        \* number of primary keys the storage layer has generated
    dbLog,          \* database commands issued by __init__, in order
    last,           \* the last call on the handle: operation, arguments, outcome
    uin,            \* utility helpers: the input of the last helper call
    uout,           \* utility helpers: the helper called and its result
    inflight        \* the update_and_get call in progress when clients interleave

vars == <<cfg, handle, collExists, collValidator, collIndexes, docs, nextOid,
          dbLog, last, uin, uout, inflight>>

dbVars == <<cfg, handle, collExists, collValidator, collIndexes, docs, nextOid,
            dbLog, last, inflight>>

utilVars == <<uin, uout>>

(***************************************************************************)
(* Bounds of the model.                                                    *)
(***************************************************************************)
\* the storage layer generates at most MaxOid primary keys in a behaviour
MaxOid == 2
\* at most MaxDocs documents are stored at a time
MaxDocs == 2
\* insert_many takes lists of at most MaxBatch models
MaxBatch == 2
\* index-spec and sort-spec strings have at most MaxLen characters
MaxLen == 5
\* mongo_query is called with at most MaxArgs named fields
MaxArgs == 2
\* an array field holds at most MaxPush elements
MaxPush == 2

(***************************************************************************)
(* Values.                                                                 *)
(***************************************************************************)
\* Python's None as an identifier value (model.py: doc["id"] is not None)
None == 0
\* storage-generated primary keys (ObjectId) are OidBase + 1, OidBase + 2, ...
OidBase == 100
\* the "minimum" of the validator's value property
ValidatorMinimum == 10

\* identifiers the application chooses
Ids == {1, 2}
Oids == (OidBase + 1)..(OidBase + MaxOid)
Names == {"n1", "n2"}
Values == {3, 100}

\* the (name, value) pairs the application writes: one the validator
\* accepts and one it refuses
Payloads == {<<"n1", 100>>, <<"n1", 3>>}

\* instances of the Model class Data(id, name, value); id may be None
Models == {[id |-> i, name |-> p[1], value |-> p[2]] : i \in {None, 1}, p \in Payloads}

\* the empty mapping
EmptyDoc == [f \in {} |-> None]

\* the field mappings a "set fields" update carries
SetFields ==
    {[f \in {"value"} |-> 3],
     [f \in {"name", "value"} |-> IF f = "name" THEN "n1" ELSE 100]}

\* update documents: {"$set": f}
Updates == {[set |-> f] : f \in SetFields}

\* filter documents: {"_id": i} and {"name": n}
IdQuery(i) == [f \in {"_id"} |-> i]
Queries == {IdQuery(i) : i \in Ids} \cup {[f \in {"name"} |-> "n1"]}

\* the filter {} matches every document
AllQuery == EmptyDoc

(***************************************************************************)
(* Model <-> document translation.                                         *)
(***************************************************************************)
\* BaseModel.model_dump(): the dict of the model's fields, "id" included
model_dump(m) == [f \in {"id", "name", "value"} |-> m[f]]

\* MongoModel.to_doc(): "id" renamed to "_id", dropped when it is None
to_doc(m) ==
    LET doc == model_dump(m)
        rest == [f \in DOMAIN doc \ {"id"} |-> doc[f]]
    IN  IF doc["id"] # None THEN ("_id" :> doc["id"]) @@ rest ELSE rest

\* the Model class is Data(MongoModel[int]) with name: str and value: int.
\* The integers pydantic accepts, as they are written: None, a
\* storage-generated key (ObjectId) and a list are not among them
IntTexts == {ToString(n) : n \in 1..OidBase}

\* the strings pydantic accepts, as they are written
StrTexts == {ToString(n) : n \in Names}

\* pydantic's check of a value against the field type int
IsInt(v) == ToString(v) \in IntTexts

\* pydantic's check of a value against the field type str
IsStr(v) == ToString(v) \in StrTexts

\* model_class(**doc): pydantic requires id, name and value, validates each
\* against the type the class declares for it and ignores other keys
ModelClass(doc) ==
    IF /\ {"id", "name", "value"} \subseteq DOMAIN doc
       /\ IsInt(doc["id"])
       /\ IsStr(doc["name"])
       /\ IsInt(doc["value"])
    THEN [kind |-> "model",
          model |-> [id |-> doc["id"], name |-> doc["name"], value |-> doc["value"]]]
    ELSE [kind |-> "raise", error |-> "ValidationError"]

\* MongoCollection._to_model(): doc["id"] = doc.pop("_id"), then the constructor
ToModel(doc) ==
    LET renamed == [f \in (DOMAIN doc \ {"_id"}) \cup {"id"} |->
                        IF f = "id" THEN doc["_id"] ELSE doc[f]]
    IN  ModelClass(renamed)

(***************************************************************************)
(* The storage layer, as the handle's calls see it.  D is the set of       *)
(* stored documents, n the number of primary keys generated so far.        *)
(***************************************************************************)
\* the $jsonSchema validator of the Model: required name and value, value >= 10
Violates(doc) ==
    \/ "name" \notin DOMAIN doc
    \/ "value" \notin DOMAIN doc
    \/ doc["value"] < ValidatorMinimum

\* a write of doc is refused when the collection has the validator and doc violates it
Rejected(doc) == collValidator /\ Violates(doc)

\* equality filter: every field of the query is in the document with that value
Matches(doc, q) == \A f \in DOMAIN q : f \in DOMAIN doc /\ doc[f] = q[f]

Matching(D, q) == {d \in D : Matches(d, q)}

\* collection.find_one({"_id": id}): the document or None
FindById(D, i) ==
    IF Matching(D, IdQuery(i)) = {} THEN [kind |-> "none"]
    ELSE [kind |-> "doc", doc |-> CHOOSE d \in Matching(D, IdQuery(i)) : TRUE]

\* the primary key the storage layer generates for a document without _id
GenId(n) == OidBase + n + 1

\* the document after the update operators of u are applied: $set
ApplyUpdate(doc, u) ==
    [f \in DOMAIN doc \cup DOMAIN u.set |->
        IF f \in DOMAIN u.set THEN u.set[f] ELSE doc[f]]

\* the document an upsert creates: the filter's equality fields, then the
\* update, then a generated _id when the filter gave none
UpsertDoc(n, q, u) ==
    LET d == ApplyUpdate(q, u)
    IN  IF "_id" \in DOMAIN d THEN d ELSE ("_id" :> GenId(n)) @@ d

Raise(e) == [kind |-> "raise", error |-> e]

UpdateResult(matched, modified, upserted) ==
    [kind |-> "result", matched_count |-> matched, modified_count |-> modified,
     upserted_id |-> upserted]

\* the upsert branch of update_one / update_many: nothing matched
UpsertResults(D, n, q, u) ==
    LET d == UpsertDoc(n, q, u)
    IN  IF Rejected(d)
        THEN {[docs |-> D, gen |-> 0, res |-> Raise("DocumentValidationFailure")]}
        ELSE {[docs |-> D \cup {d},
               gen |-> IF "_id" \in DOMAIN q THEN 0 ELSE 1,
               res |-> UpdateResult(0, 0, d["_id"])]}

\* update_one that never upserts
StoreUpdateOneNoUpsert(D, n, q, u, upsert) ==
    IF Matching(D, q) = {}
    THEN {[docs |-> D, gen |-> 0, res |-> UpdateResult(0, 0, None)]}
    ELSE {IF Rejected(ApplyUpdate(d, u))
          THEN [docs |-> D, gen |-> 0, res |-> Raise("DocumentValidationFailure")]
          ELSE [docs |-> (D \ {d}) \cup {ApplyUpdate(d, u)}, gen |-> 0,
                res |-> UpdateResult(1, IF ApplyUpdate(d, u) # d THEN 1 ELSE 0, None)]
          : d \in Matching(D, q)}

\* collection.update_one(q, u, upsert=upsert): one matching document is updated
StoreUpdateOne(D, n, q, u, upsert) ==
    IF Matching(D, q) = {}
    THEN IF upsert THEN UpsertResults(D, n, q, u)
         ELSE {[docs |-> D, gen |-> 0, res |-> UpdateResult(0, 0, None)]}
    ELSE {IF Rejected(ApplyUpdate(d, u))
          THEN [docs |-> D, gen |-> 0, res |-> Raise("DocumentValidationFailure")]
          ELSE [docs |-> (D \ {d}) \cup {ApplyUpdate(d, u)}, gen |-> 0,
                res |-> UpdateResult(1, IF ApplyUpdate(d, u) # d THEN 1 ELSE 0, None)]
          : d \in Matching(D, q)}

\* collection.update_many(q, u, upsert=upsert): every matching document is
\* updated, one after the other in an order the storage layer chooses; the
\* first refused document ends the call, the earlier ones stay written
StoreUpdateMany(D, n, q, u, upsert) ==
    LET M == Matching(D, q)
        bad == {d \in M : Rejected(ApplyUpdate(d, u))}
        Written(P) == (D \ P) \cup {ApplyUpdate(d, u) : d \in P}
    IN  IF M = {}
        THEN IF upsert THEN UpsertResults(D, n, q, u)
             ELSE {[docs |-> D, gen |-> 0, res |-> UpdateResult(0, 0, None)]}
        ELSE IF bad = {}
        THEN {[docs |-> Written(M), gen |-> 0,
               res |-> UpdateResult(Cardinality(M),
                                    Cardinality({d \in M : ApplyUpdate(d, u) # d}),
                                    None)]}
        ELSE {[docs |-> Written(P), gen |-> 0,
               res |-> Raise("DocumentValidationFailure")] : P \in SUBSET (M \ bad)}

\* find_one_and_update called with upsert=True: a missing document is created
FindOneAndUpdateUpsert(D, i, u) ==
    LET r == FindById(D, i)
        d == IF r.kind = "none" THEN UpsertDoc(0, IdQuery(i), u) ELSE ApplyUpdate(r.doc, u)
    IN  IF Rejected(d) THEN [docs |-> D, res |-> Raise("DocumentValidationFailure")]
        ELSE [docs |-> {e \in D : e["_id"] # i} \cup {d}, res |-> [kind |-> "doc", doc |-> d]]

\* find_one_and_update with return_document=BEFORE, the driver's default
FindOneAndUpdateBefore(D, i, u) ==
    LET r == FindById(D, i)
    IN  IF r.kind = "none" THEN [docs |-> D, res |-> [kind |-> "none"]]
        ELSE IF Rejected(ApplyUpdate(r.doc, u))
        THEN [docs |-> D, res |-> Raise("DocumentValidationFailure")]
        ELSE [docs |-> (D \ {r.doc}) \cup {ApplyUpdate(r.doc, u)},
              res |-> [kind |-> "doc", doc |-> r.doc]]

\* collection.find_one_and_update({"_id": i}, u, return_document=AFTER)
FindOneAndUpdate(D, i, u) ==
    LET r == FindById(D, i)
    IN  IF r.kind = "none" THEN [docs |-> D, res |-> [kind |-> "none"]]
        ELSE IF Rejected(ApplyUpdate(r.doc, u))
        THEN [docs |-> D, res |-> Raise("DocumentValidationFailure")]
        ELSE [docs |-> (D \ {r.doc}) \cup {ApplyUpdate(r.doc, u)},
              res |-> [kind |-> "doc", doc |-> ApplyUpdate(r.doc, u)]]

\* the driver gives every submitted document without _id a generated one
RECURSIVE AssignIds(_, _)
AssignIds(raw, n) ==
    IF raw = <<>> THEN <<>>
    ELSE IF "_id" \in DOMAIN Head(raw)
    THEN <<Head(raw)>> \o AssignIds(Tail(raw), n)
    ELSE <<("_id" :> GenId(n)) @@ Head(raw)>> \o AssignIds(Tail(raw), n + 1)

Generated(raw) == Cardinality({k \in DOMAIN raw : "_id" \notin DOMAIN raw[k]})

\* one document is refused by the storage layer: duplicate key or validator
InsertError(D, d) ==
    IF \E e \in D : e["_id"] = d["_id"] THEN "DuplicateKeyError"
    ELSE IF Rejected(d) THEN "DocumentValidationFailure"
    ELSE "none"

\* the documents are written in list order; ordered stops at the first
\* refused one, unordered goes on
RECURSIVE InsertAll(_, _, _, _)
InsertAll(D, ds, ordered, failed) ==
    IF ds = <<>> THEN [docs |-> D, failed |-> failed]
    ELSE IF InsertError(D, Head(ds)) # "none"
    THEN IF ordered THEN [docs |-> D, failed |-> TRUE]
         ELSE InsertAll(D, Tail(ds), ordered, TRUE)
    ELSE InsertAll(D \cup {Head(ds)}, Tail(ds), ordered, failed)

\* collection.insert_one(raw)
StoreInsertOne(D, n, raw) ==
    LET d == AssignIds(<<raw>>, n)[1]
        err == InsertError(D, d)
    IN  [docs |-> IF err = "none" THEN D \cup {d} ELSE D,
         gen |-> Generated(<<raw>>),
         res |-> IF err = "none" THEN [kind |-> "result", inserted_id |-> d["_id"]]
                 ELSE Raise(err)]

\* collection.insert_many(raws, ordered=ordered)
StoreInsertMany(D, n, raws, ordered) ==
    LET ds == AssignIds(raws, n)
        r == InsertAll(D, ds, ordered, FALSE)
    IN  [docs |-> r.docs,
         gen |-> Generated(raws),
         res |-> IF r.failed THEN Raise("BulkWriteError")
                 ELSE [kind |-> "result",
                       inserted_ids |-> [k \in DOMAIN ds |-> ds[k]["_id"]]]]

DeleteResult(deleted) == [kind |-> "result", deleted_count |-> deleted]

\* collection.delete_one(q): one matching document goes, the storage layer
\* chooses which
StoreDeleteOne(D, q) ==
    IF Matching(D, q) = {} THEN {[docs |-> D, gen |-> 0, res |-> DeleteResult(0)]}
    ELSE {[docs |-> D \ {d}, gen |-> 0, res |-> DeleteResult(1)] : d \in Matching(D, q)}

\* collection.delete_many(q): every matching document goes
StoreDeleteMany(D, q) ==
    [docs |-> D \ Matching(D, q), gen |-> 0,
     res |-> DeleteResult(Cardinality(Matching(D, q)))]

\* collection.count_documents(q)
CountDocuments(D, q) == Cardinality(Matching(D, q))

(***************************************************************************)
(* MongoCollection: what each method does to the stored documents D and    *)
(* what it returns or raises.                                              *)
(***************************************************************************)
\* the document insert_one and insert_many submit for a model: model_dump()
SubmittedDoc(m) == model_dump(m)

\* insert_one(doc)
insert_one(D, n, m) == StoreInsertOne(D, n, SubmittedDoc(m))

\* insert_many(docs, ordered)
insert_many(D, n, ms, ordered) ==
    StoreInsertMany(D, n, [k \in DOMAIN ms |-> SubmittedDoc(ms[k])], ordered)

\* get_or_none(id): find_one by _id, then _to_model when a document came back
get_or_none(D, i) ==
    LET res == FindById(D, i)
    IN  IF res.kind = "doc" THEN ToModel(res.doc) ELSE [kind |-> "none"]

\* MongoNotFoundError(id): the error object, its id attribute set
MongoNotFoundError(i) == [kind |-> "raise", error |-> "MongoNotFoundError", id |-> i]

\* get(id): get_or_none, MongoNotFoundError when it gave nothing
get(D, i) ==
    LET res == get_or_none(D, i)
    IN  IF res.kind = "none" THEN MongoNotFoundError(i) ELSE res

\* update_and_get(id, update): find_one_and_update, the model of the document
\* it returned, MongoNotFoundError when it returned none
update_and_get(D, i, u) ==
    LET r == FindOneAndUpdate(D, i, u)
    IN  [docs |-> r.docs,
         res |-> IF r.res.kind = "doc" THEN ToModel(r.res.doc)
                 ELSE IF r.res.kind = "none" THEN MongoNotFoundError(i)
                 ELSE r.res]

\* set_and_get(id, update) = update_and_get(id, {"$set": update})
set_and_get(D, i, f) == update_and_get(D, i, [set |-> f])

\* update(id, update, upsert) = collection.update_one({"_id": id}, update, upsert)
update(D, n, i, u, upsert) == StoreUpdateOne(D, n, IdQuery(i), u, upsert)

\* set(id, update, upsert) = collection.update_one({"_id": id}, {"$set": update}, upsert)
set(D, n, i, f, upsert) == StoreUpdateOne(D, n, IdQuery(i), [set |-> f], upsert)

\* update_one that catches the storage layer's error and reports no match
update_one_quiet(D, n, q, u, upsert) ==
    {IF r.res.kind = "raise" THEN [r EXCEPT !.res = UpdateResult(0, 0, None)] ELSE r :
        r \in StoreUpdateOne(D, n, q, u, upsert)}

\* update_one(query, update, upsert) forwards to collection.update_one
update_one(D, n, q, u, upsert) == StoreUpdateOne(D, n, q, u, upsert)

\* update_many(query, update, upsert) forwards to collection.update_many
update_many(D, n, q, u, upsert) == StoreUpdateMany(D, n, q, u, upsert)

\* the fields that hold arrays
ArrayFields == {"values"}

\* the arguments of set_and_push: the fields to set and the values to push
PushSets == {[f \in {"name"} |-> "n2"], [f \in {"value"} |-> 3]}

Pushes == {[f \in {"values"} |-> 7], [f \in {"values"} |-> 8], [f \in {"value"} |-> 7]}

\* the document after {"$set": f, "$push": p}: the fields of f assigned, each
\* value of p appended to its array, which is created when it is missing
ApplySetPush(doc, f, p) ==
    [k \in DOMAIN doc \cup DOMAIN f \cup DOMAIN p |->
        IF k \in DOMAIN f THEN f[k]
        ELSE IF k \in DOMAIN p
        THEN (IF k \in DOMAIN doc THEN doc[k] ELSE <<>>) \o <<p[k]>>
        ELSE doc[k]]

\* collection.update_one({"_id": i}, {"$set": f, "$push": p}): the update is
\* refused when a field is in both operators, when a pushed field of the
\* document is not an array, and when the validator refuses the result
StoreSetPush(D, i, f, p) ==
    LET r == FindById(D, i)
    IN  IF DOMAIN f \cap DOMAIN p # {}
        THEN [docs |-> D, gen |-> 0, res |-> Raise("WriteError")]
        ELSE IF r.kind = "none"
        THEN [docs |-> D, gen |-> 0, res |-> UpdateResult(0, 0, None)]
        ELSE IF \E k \in DOMAIN p : k \in DOMAIN r.doc /\ k \notin ArrayFields
        THEN [docs |-> D, gen |-> 0, res |-> Raise("WriteError")]
        ELSE IF Rejected(ApplySetPush(r.doc, f, p))
        THEN [docs |-> D, gen |-> 0, res |-> Raise("DocumentValidationFailure")]
        ELSE [docs |-> (D \ {r.doc}) \cup {ApplySetPush(r.doc, f, p)}, gen |-> 0,
              res |-> UpdateResult(1, 1, None)]

\* set_and_push that upserts
set_and_push_upsert(D, i, f, p) ==
    IF FindById(D, i).kind = "none" /\ DOMAIN f \cap DOMAIN p = {}
    THEN [docs |-> D \cup {ApplySetPush(IdQuery(i), f, p)}, gen |-> 0,
          res |-> UpdateResult(0, 0, i)]
    ELSE StoreSetPush(D, i, f, p)

\* set_and_push(id, update, push) =
\* collection.update_one({"_id": id}, {"$set": update, "$push": push})
set_and_push(D, i, f, p) == StoreSetPush(D, i, f, p)

\* delete_many that stops after the first matching document
delete_many_first(D, q) ==
    IF Matching(D, q) = {} THEN StoreDeleteMany(D, q)
    ELSE [docs |-> D \ {CHOOSE d \in Matching(D, q) : TRUE}, gen |-> 0,
          res |-> DeleteResult(1)]

\* delete_many(query) forwards to collection.delete_many
delete_many(D, q) == StoreDeleteMany(D, q)

\* delete_one(query) forwards to collection.delete_one
delete_one(D, q) == StoreDeleteOne(D, q)

\* delete(id) = collection.delete_one({"_id": id})
delete(D, i) == StoreDeleteOne(D, IdQuery(i))

\* count(query) forwards to collection.count_documents
count(D, q) == CountDocuments(D, q)

\* exists(query) = count(query) > 0
exists(D, q) == count(D, q) > 0

\* set_many that upserts
set_many_upsert(D, n, q, f) == StoreUpdateMany(D, n, q, [set |-> f], TRUE)

\* set_many(query, update) = collection.update_many(query, {"$set": update})
set_many(D, n, q, f) == StoreUpdateMany(D, n, q, [set |-> f], FALSE)

\* what a call record keeps of a result: its kind, or the error raised
OutKind(out) == IF out.kind = "raise" THEN out.error ELSE out.kind

\* a call record: the method, the kind of its outcome and the number of
\* storage calls it made
Call(op, out) == [op |-> op, kind |-> OutKind(out), calls |-> 1]

\* a write that stores a new document creates the collection when it is missing
Created(D) == collExists \/ D \ docs # {}

(***************************************************************************)
(* Utility helpers.  A string is the sequence of its characters.           *)
(***************************************************************************)
\* pymongo.ASCENDING and pymongo.DESCENDING
ASCENDING == 1
DESCENDING == 0 - 1

\* str.startswith(c) for a one-character prefix
StartsWith(s, c) == Len(s) > 0 /\ s[1] = c

\* str.removeprefix(c)
RemovePrefix(s, c) == IF StartsWith(s, c) THEN Tail(s) ELSE s

\* str.lstrip() and str.rstrip() and str.strip(), for the space character
RECURSIVE LStrip(_)
LStrip(s) == IF StartsWith(s, " ") THEN LStrip(Tail(s)) ELSE s

RECURSIVE RStrip(_)
RStrip(s) ==
    IF Len(s) > 0 /\ s[Len(s)] = " " THEN RStrip(SubSeq(s, 1, Len(s) - 1)) ELSE s

Strip(s) == RStrip(LStrip(s))

\* str.split(","): the pieces between the commas, empty pieces included
RECURSIVE SplitFrom(_, _)
SplitFrom(s, piece) ==
    IF s = <<>> THEN <<piece>>
    ELSE IF Head(s) = "," THEN <<piece>> \o SplitFrom(Tail(s), <<>>)
    ELSE SplitFrom(Tail(s), Append(piece, Head(s)))

Split(s) == SplitFrom(s, <<>>)

\* a key token parsed with the - kept in the field name
ParseKeyKeepMinus(tok) ==
    <<tok, IF StartsWith(tok, "-") THEN DESCENDING ELSE ASCENDING>>

\* one key token: -field is descending, field ascending
ParseKey(tok) ==
    <<RemovePrefix(tok, "-"), IF StartsWith(tok, "-") THEN DESCENDING ELSE ASCENDING>>

\* parse_str_index_model(index): a leading ! makes the index unique, the rest
\* is a comma-separated list of key tokens
parse_str_index_model(index) ==
    LET toks == Split(RemovePrefix(index, "!"))
    IN  [keys |-> [k \in DOMAIN toks |-> ParseKey(toks[k])],
         unique |-> StartsWith(index, "!")]

\* the items of a list that are not blank, in order
RECURSIVE NonBlank(_)
NonBlank(items) ==
    IF items = <<>> THEN <<>>
    ELSE IF Strip(Head(items)) = <<>> THEN NonBlank(Tail(items))
    ELSE <<Strip(Head(items))>> \o NonBlank(Tail(items))

\* parse_indexes(value): absent or empty input gives no index; a string is
\* split on commas, each stripped item is one index
parse_indexes(value) ==
    IF value.kind = "none" \/ value.s = <<>> THEN <<>>
    ELSE LET items == NonBlank(Split(value.s))
         IN  [k \in DOMAIN items |-> parse_str_index_model(items[k])]

\* parse_sort that does not strip the tokens
parse_sort_nostrip(sort) ==
    IF sort.kind = "none" THEN [kind |-> "none"]
    ELSE IF sort.kind = "pairs" THEN sort
    ELSE IF sort.s = <<>> THEN [kind |-> "none"]
    ELSE LET toks == Split(sort.s)
         IN  [kind |-> "pairs", v |-> [k \in DOMAIN toks |-> ParseKey(toks[k])]]

\* parse_sort(sort): absent or empty input is no sort, a list of pairs is
\* returned as it is, a string is split on commas into stripped key tokens
parse_sort(sort) ==
    IF sort.kind = "none" THEN [kind |-> "none"]
    ELSE IF sort.kind = "pairs" THEN sort
    ELSE IF sort.s = <<>> THEN [kind |-> "none"]
    ELSE LET toks == Split(sort.s)
         IN  [kind |-> "pairs", v |-> [k \in DOMAIN toks |-> ParseKey(Strip(toks[k]))]]

\* a value mongo_query leaves out: None, the empty string, the empty collection
Omitted(v) == v.t = "none" \/ (v.t \in {"str", "list"} /\ v.n = 0)

\* mongo_query that keeps the truthy values only
mongo_query_truthy(kwargs) ==
    [k \in {x \in DOMAIN kwargs : kwargs[x].t # "none" /\ kwargs[x].n # 0} |-> kwargs[k]]

\* mongo_query(**kwargs): the fields whose value is not left out
mongo_query(kwargs) == [k \in {x \in DOMAIN kwargs : ~Omitted(kwargs[x])} |-> kwargs[k]]

(***************************************************************************)
(* Finding: the methods that take a sort specification.                    *)
(***************************************************************************)
\* the characters of the field names a sort specification can name
FieldChars == [value |-> <<"v", "a", "l", "u", "e">>]

FieldOf(chars) == CHOOSE f \in DOMAIN FieldChars : FieldChars[f] = chars

\* the sort and limit arguments callers give: None, "value", "-value"; 0, 1, 2
SortSpecs ==
    {[kind |-> "none"],
     [kind |-> "str", s |-> FieldChars["value"]],
     [kind |-> "str", s |-> <<"-">> \o FieldChars["value"]]}

Limits == {0, 1, 2}

\* document a does not come after document b under the sort keys
RECURSIVE InOrder(_, _, _)
InOrder(a, b, keys) ==
    IF keys = <<>> THEN TRUE
    ELSE LET f == FieldOf(keys[1][1])
         IN  IF a[f] = b[f] THEN InOrder(a, b, Tail(keys))
             ELSE IF keys[1][2] = ASCENDING THEN a[f] < b[f] ELSE a[f] > b[f]

\* the orders in which the storage layer can return the documents matching
\* q: any order without a sort, the orders the sort keys allow with one
Cursor(D, q, sort) ==
    LET M == Matching(D, q)
        keys == IF sort.kind = "none" THEN <<>> ELSE sort.v
    IN  {c \in [1..Cardinality(M) -> M] :
            /\ \A j, k \in DOMAIN c : j # k => c[j] # c[k]
            /\ \A j, k \in DOMAIN c : j < k => InOrder(c[j], c[k], keys)}

\* cursor.limit(limit): 0 is no limit
Limit(c, limit) ==
    IF limit = 0 \/ limit >= Len(c) THEN c ELSE SubSeq(c, 1, limit)

\* collection.find(q, sort=sort, limit=limit)
StoreFind(D, q, sort, limit) == {Limit(c, limit) : c \in Cursor(D, q, sort)}

\* collection.find_one(q, sort=sort): the first document of the cursor or None
StoreFindOne(D, q, sort) ==
    IF Matching(D, q) = {} THEN {[kind |-> "none"]}
    ELSE {[kind |-> "doc", doc |-> c[1]] : c \in Cursor(D, q, sort)}

\* [self._to_model(d) for d in ...]: the models, or the first error raised
ToModels(c) ==
    IF \E k \in DOMAIN c : ToModel(c[k]).kind = "raise"
    THEN Raise("ValidationError")
    ELSE [kind |-> "models", v |-> [k \in DOMAIN c |-> ToModel(c[k]).model]]

\* find(query, sort, limit)
find(D, q, sort, limit) ==
    {ToModels(c) : c \in StoreFind(D, q, parse_sort(sort), limit)}

\* find_one(query, sort)
find_one(D, q, sort) ==
    {IF res.kind = "doc" THEN ToModel(res.doc) ELSE [kind |-> "none"] :
        res \in StoreFindOne(D, q, parse_sort(sort))}

(***************************************************************************)
(* Actions: one per method of MongoCollection.                             *)
(***************************************************************************)
\* __init__ blocks on the database at create_indexes (line 29), at
\* list_collection_names (line 34) and at collMod (line 36) or
\* create_collection (line 40); other clients of the database act between
\* these calls.  While __init__ runs, handle names the call it makes next.
InInit == {"create_indexes", "list_collection_names", "collMod", "create_collection"}

\* the database calls in a log of __init__: the replies are not calls
DbCalls(log) ==
    Cardinality({k \in DOMAIN log : log[k] \notin {"reply with ok", "reply without ok"}})

\* lines 31-32: where __init__ goes once the indexes are dealt with
AfterIndexes == IF cfg.validator THEN "list_collection_names" ELSE "ready"

\* __init__ returns or raises: the handle and the outcome of the call
Finish(h, kind, log) ==
    /\ handle' = h
    /\ dbLog' = log
    /\ last' = [op |-> "init", kind |-> kind, calls |-> DbCalls(log)]

\* __init__ goes on to its next database call
Proceed(h, log) ==
    /\ handle' = h
    /\ dbLog' = log
    /\ UNCHANGED last

\* __init__ that checks the collection name after get_collection
ConstructBeginLateCheck ==
    /\ handle = "none"
    /\ LET log == <<"get_collection">>
           h == IF cfg.indexes THEN "create_indexes" ELSE AfterIndexes
       IN  IF cfg.name = ""
           THEN Finish("failed", "ValueError", log)
           ELSE IF h = "ready" THEN Finish("ready", "ok", log) ELSE Proceed(h, log)
    /\ UNCHANGED <<cfg, collExists, collValidator, collIndexes, docs, nextOid,
                   uin, uout, inflight>>

\* __init__(database, model_class), lines 23-32 up to the first call that
\* reaches the database: the name check and get_collection, which only
\* builds the collection object
ConstructBegin ==
    /\ handle = "none"
    /\ IF cfg.name = ""
       THEN Finish("failed", "ValueError", <<>>)
       ELSE LET log == <<"get_collection">>
                h == IF cfg.indexes THEN "create_indexes" ELSE AfterIndexes
            IN  IF h = "ready" THEN Finish("ready", "ok", log) ELSE Proceed(h, log)
    /\ UNCHANGED <<cfg, collExists, collValidator, collIndexes, docs, nextOid,
                   uin, uout, inflight>>

\* line 29, create_indexes: the server creates the collection if it is not
\* there and builds the indexes
ConstructCreateIndexes ==
    /\ handle = "create_indexes"
    /\ collExists' = TRUE
    /\ collIndexes' = TRUE
    /\ LET log == Append(dbLog, "create_indexes")
       IN  IF AfterIndexes = "ready"
           THEN Finish("ready", "ok", log)
           ELSE Proceed(AfterIndexes, log)
    /\ UNCHANGED <<cfg, collValidator, docs, nextOid, uin, uout, inflight>>

\* line 34, list_collection_names: the reply decides between collMod and
\* create_collection
ConstructListNames ==
    /\ handle = "list_collection_names"
    /\ Proceed(IF collExists THEN "collMod" ELSE "create_collection",
               Append(dbLog, "list_collection_names"))
    /\ UNCHANGED <<cfg, collExists, collValidator, collIndexes, docs, nextOid,
                   uin, uout, inflight>>

\* collMod whose reply is taken for a success whatever it carries
ConstructCollModAnyReply(ok, applied) ==
    /\ handle = "collMod"
    /\ IF ~collExists
       THEN /\ Finish("failed", "OperationFailure", Append(dbLog, "collMod"))
            /\ UNCHANGED collValidator
       ELSE /\ Finish("ready", "ok",
                      dbLog \o <<"collMod", IF ok THEN "reply with ok"
                                            ELSE "reply without ok">>)
            /\ collValidator' = (ok \/ applied)
    /\ UNCHANGED <<cfg, collExists, collIndexes, docs, nextOid, uin, uout, inflight>>

\* lines 35-38, database.command(collMod); ok: the reply carries "ok";
\* applied: the server applied a collMod whose reply carries no "ok".  The
\* server refuses collMod on a collection that is not there (any more)
ConstructCollMod(ok, applied) ==
    /\ handle = "collMod"
    /\ IF ~collExists
       THEN /\ Finish("failed", "OperationFailure", Append(dbLog, "collMod"))
            /\ UNCHANGED collValidator
       ELSE IF ok
       THEN /\ Finish("ready", "ok", dbLog \o <<"collMod", "reply with ok">>)
            /\ collValidator' = TRUE
       ELSE /\ Finish("failed", "RuntimeError", dbLog \o <<"collMod", "reply without ok">>)
            /\ collValidator' = (collValidator \/ applied)
    /\ UNCHANGED <<cfg, collExists, collIndexes, docs, nextOid, uin, uout, inflight>>

\* line 40, create_collection with the validator: raises CollectionInvalid
\* when the collection is there (by now)
ConstructCreateCollection ==
    /\ handle = "create_collection"
    /\ IF collExists
       THEN /\ Finish("failed", "CollectionInvalid", Append(dbLog, "create_collection"))
            /\ UNCHANGED <<collExists, collValidator>>
       ELSE /\ Finish("ready", "ok", Append(dbLog, "create_collection"))
            /\ collExists' = TRUE
            /\ collValidator' = TRUE
    /\ UNCHANGED <<cfg, collIndexes, docs, nextOid, uin, uout, inflight>>

\* another client of the database creates the collection
OtherCreate ==
    /\ ~collExists
    /\ collExists' = TRUE
    /\ UNCHANGED <<cfg, handle, collValidator, collIndexes, docs, nextOid, dbLog,
                   last, uin, uout, inflight>>

\* another client of the database drops the collection
OtherDrop ==
    /\ collExists
    /\ collExists' = FALSE
    /\ collValidator' = FALSE
    /\ collIndexes' = FALSE
    /\ docs' = {}
    /\ UNCHANGED <<cfg, handle, nextOid, dbLog, last, uin, uout, inflight>>

\* a write step that applies the Model's validator and indexes again when it
\* creates the collection
WriteStepReapply(op, r) ==
    /\ Cardinality(r.docs) <= MaxDocs
    /\ nextOid + r.gen <= MaxOid
    /\ docs' = r.docs
    /\ nextOid' = nextOid + r.gen
    /\ collExists' = Created(r.docs)
    /\ collValidator' = (collValidator \/ (~collExists /\ collExists' /\ cfg.validator))
    /\ collIndexes' = (collIndexes \/ (~collExists /\ collExists' /\ cfg.indexes))
    /\ last' = Call(op, r.res)
    /\ UNCHANGED <<cfg, handle, dbLog, uin, uout, inflight>>

\* the step of a method that writes: r is what the method does, a record of
\* the documents afterwards, the keys generated and the outcome
WriteStep(op, r) ==
    /\ Cardinality(r.docs) <= MaxDocs
    /\ nextOid + r.gen <= MaxOid
    /\ docs' = r.docs
    /\ nextOid' = nextOid + r.gen
    /\ collExists' = Created(r.docs)
    /\ last' = Call(op, r.res)
    /\ UNCHANGED <<cfg, handle, collValidator, collIndexes, dbLog, uin, uout, inflight>>

\* the step of a method that only reads
ReadStep(op, out) ==
    /\ last' = Call(op, out)
    /\ UNCHANGED <<cfg, handle, collExists, collValidator, collIndexes, docs,
                   nextOid, dbLog, uin, uout, inflight>>

InsertOne(m) ==
    /\ handle = "ready"
    /\ WriteStep("insert_one", insert_one(docs, nextOid, m))

InsertMany(ms, ordered) ==
    /\ handle = "ready"
    /\ Cardinality(docs) + Len(ms) <= MaxDocs
    /\ WriteStep("insert_many", insert_many(docs, nextOid, ms, ordered))

GetOrNone(i) ==
    /\ handle = "ready"
    /\ ReadStep("get_or_none", get_or_none(docs, i))

Get(i) ==
    /\ handle = "ready"
    /\ ReadStep("get", get(docs, i))

UpdateAndGet(i, u) ==
    /\ handle = "ready"
    /\ WriteStep("update_and_get", [docs |-> update_and_get(docs, i, u).docs, gen |-> 0,
                                    res |-> update_and_get(docs, i, u).res])

SetAndGet(i, f) ==
    /\ handle = "ready"
    /\ WriteStep("set_and_get", [docs |-> set_and_get(docs, i, f).docs, gen |-> 0,
                                 res |-> set_and_get(docs, i, f).res])

Update(i, u, upsert) ==
    /\ handle = "ready"
    /\ \E r \in update(docs, nextOid, i, u, upsert) : WriteStep("update", r)

Set(i, f, upsert) ==
    /\ handle = "ready"
    /\ \E r \in set(docs, nextOid, i, f, upsert) : WriteStep("set", r)

UpdateOne(q, u, upsert) ==
    /\ handle = "ready"
    /\ \E r \in update_one(docs, nextOid, q, u, upsert) : WriteStep("update_one", r)

UpdateMany(q, u, upsert) ==
    /\ handle = "ready"
    /\ \E r \in update_many(docs, nextOid, q, u, upsert) : WriteStep("update_many", r)

SetMany(q, f) ==
    /\ handle = "ready"
    /\ \E r \in set_many(docs, nextOid, q, f) : WriteStep("set_many", r)

SetAndPush(i, f, p) ==
    /\ handle = "ready"
    /\ \A d \in set_and_push(docs, i, f, p).docs :
            \A k \in DOMAIN d \cap ArrayFields : Len(d[k]) <= MaxPush
    /\ WriteStep("set_and_push", set_and_push(docs, i, f, p))

DeleteMany(q) ==
    /\ handle = "ready"
    /\ WriteStep("delete_many", delete_many(docs, q))

DeleteOne(q) ==
    /\ handle = "ready"
    /\ \E r \in delete_one(docs, q) : WriteStep("delete_one", r)

Delete(i) ==
    /\ handle = "ready"
    /\ \E r \in delete(docs, i) : WriteStep("delete", r)

Count(q) ==
    /\ handle = "ready"
    /\ ReadStep("count", [kind |-> "int", n |-> count(docs, q)])

Exists(q) ==
    /\ handle = "ready"
    /\ ReadStep("exists", [kind |-> "bool", b |-> exists(docs, q)])

Find(q, sort, limit) ==
    /\ handle = "ready"
    /\ \E out \in find(docs, q, sort, limit) : ReadStep("find", out)

FindOne(q, sort) ==
    /\ handle = "ready"
    /\ \E out \in find_one(docs, q, sort) : ReadStep("find_one", out)

\* drop_collection that only removes the documents
DropCollectionDocsOnly ==
    /\ handle = "ready"
    /\ docs' = {}
    /\ last' = Call("drop_collection", [kind |-> "ok"])
    /\ UNCHANGED <<cfg, handle, collExists, collValidator, collIndexes, nextOid, dbLog,
                   uin, uout, inflight>>

\* drop_collection(): the collection goes, with its documents, indexes and validator
DropCollection ==
    /\ handle = "ready"
    /\ docs' = {}
    /\ collExists' = FALSE
    /\ collValidator' = FALSE
    /\ collIndexes' = FALSE
    /\ last' = Call("drop_collection", [kind |-> "ok"])
    /\ UNCHANGED <<cfg, handle, nextOid, dbLog, uin, uout, inflight>>

(***************************************************************************)
(* Specifications of the collection.                                       *)
(***************************************************************************)
\* every Model class declaration
Configs == [name : {"", "data"}, indexes : BOOLEAN, validator : BOOLEAN]

BatchLists == UNION {[1..k -> Models] : k \in 1..MaxBatch}

AllIds == Ids \cup Oids

\* the identifiers a caller can name: its own and the generated ones so far
KnownIds == Ids \cup {GenId(k) : k \in 0..(nextOid - 1)}

NoUtil == [op |-> "none"]

\* no update_and_get call is in progress
Idle == [pc |-> "idle"]

InitDb ==
    /\ handle = "none"
    /\ collValidator = FALSE
    /\ collIndexes = FALSE
    /\ docs = {}
    /\ nextOid = 0
    /\ dbLog = <<>>
    /\ last = [op |-> "none", kind |-> "none", calls |-> 0]
    /\ uin = NoUtil
    /\ uout = NoUtil
    /\ inflight = Idle

\* Spec: a handle for a named Model class, with or without a validator, on a
\* database that does not have the collection yet, and every method call.
\* No other client uses the database and the Model declares no indexes, so
\* __init__ never reaches create_indexes or collMod here.
Init ==
    /\ cfg \in {c \in Configs : c.name # "" /\ ~c.indexes}
    /\ collExists = FALSE
    /\ InitDb

Next ==
    \/ ConstructBegin
    \/ ConstructListNames
    \/ ConstructCreateCollection
    \/ \E m \in Models : InsertOne(m)
    \/ \E ms \in BatchLists, ordered \in BOOLEAN : InsertMany(ms, ordered)
    \/ \E i \in KnownIds : GetOrNone(i)
    \/ \E i \in KnownIds : Get(i)
    \/ \E i \in KnownIds, u \in Updates : UpdateAndGet(i, u)
    \/ \E i \in KnownIds, f \in SetFields : SetAndGet(i, f)
    \/ \E i \in KnownIds, u \in Updates, upsert \in BOOLEAN : Update(i, u, upsert)
    \/ \E i \in KnownIds, f \in SetFields, upsert \in BOOLEAN : Set(i, f, upsert)
    \/ \E q \in Queries, u \in Updates, upsert \in BOOLEAN : UpdateOne(q, u, upsert)
    \/ \E q \in Queries, u \in Updates, upsert \in BOOLEAN : UpdateMany(q, u, upsert)
    \/ DropCollection

Spec == Init /\ [][Next]_vars

\* SpecQuery: the handle of Spec with the calls that find, count and delete
\* documents, and the inserts and set-fields calls that store them
NextQuery ==
    \/ ConstructBegin
    \/ ConstructListNames
    \/ ConstructCreateCollection
    \/ \E m \in Models : InsertOne(m)
    \/ \E i \in Ids, f \in SetFields, upsert \in BOOLEAN : Set(i, f, upsert)
    \/ \E q \in Queries, f \in SetFields : SetMany(q, f)
    \/ \E q \in Queries : DeleteMany(q)
    \/ \E q \in Queries : DeleteOne(q)
    \/ \E i \in KnownIds : Delete(i)
    \/ \E q \in Queries \cup {AllQuery} : Count(q)
    \/ \E q \in Queries \cup {AllQuery} : Exists(q)
    \/ \E q \in Queries \cup {AllQuery}, sort \in SortSpecs, limit \in Limits :
            Find(q, sort, limit)
    \/ \E q \in Queries \cup {AllQuery}, sort \in SortSpecs : FindOne(q, sort)

SpecQuery == Init /\ [][NextQuery]_vars

\* SpecInit: construction for every Model class declaration, on a database
\* that has the collection or not, while another client creates and drops
\* the collection, followed by inserts, reads and drops
InitAny ==
    /\ cfg \in Configs
    /\ collExists \in BOOLEAN
    /\ InitDb

NextInit ==
    \/ ConstructBegin
    \/ ConstructCreateIndexes
    \/ ConstructListNames
    \/ \E ok \in BOOLEAN, applied \in BOOLEAN : ConstructCollMod(ok, applied)
    \/ ConstructCreateCollection
    \/ OtherCreate
    \/ OtherDrop
    \/ \E m \in Models : InsertOne(m)
    \/ \E i \in KnownIds : Get(i)
    \/ DropCollection

SpecInit == InitAny /\ [][NextInit]_vars

\* SpecPush: the handle of Spec with the calls that build, change and read
\* documents with an array field; the documents are created by upserts
NextPush ==
    \/ ConstructBegin
    \/ ConstructListNames
    \/ ConstructCreateCollection
    \/ \E i \in Ids, f \in SetFields, upsert \in BOOLEAN : Set(i, f, upsert)
    \/ \E i \in Ids, f \in PushSets, p \in Pushes : SetAndPush(i, f, p)
    \/ \E i \in Ids : Get(i)
    \/ \E i \in Ids : Delete(i)

SpecPush == Init /\ [][NextPush]_vars

(***************************************************************************)
(* update_and_get among other clients of the database.  The call is three  *)
(* steps of the calling thread: it is entered, the storage layer executes  *)
(* find_one_and_update, the reply is turned into the return value.  Other  *)
(* clients update and delete documents between any two of them.            *)
(***************************************************************************)
\* update_and_get(i, u) is entered
UagCall(i, u) ==
    /\ handle = "ready"
    /\ inflight.pc \in {"idle", "returned"}
    /\ inflight' = [pc |-> "called", i |-> i, u |-> u]
    /\ UNCHANGED <<cfg, handle, collExists, collValidator, collIndexes, docs, nextOid,
                   dbLog, last, uin, uout>>

\* the storage layer executes find_one_and_update: one operation on the
\* document.  pre and post are the document before and after it and wrote
\* tells whether the stored documents changed; they are kept to state what
\* the call owes, the call itself sees only the reply
UagStore ==
    /\ inflight.pc = "called"
    /\ LET r == FindOneAndUpdate(docs, inflight.i, inflight.u)
       IN  /\ docs' = r.docs
           /\ inflight' = [pc |-> "replied", i |-> inflight.i, u |-> inflight.u,
                           reply |-> r.res,
                           pre |-> FindById(docs, inflight.i),
                           post |-> FindById(r.docs, inflight.i),
                           wrote |-> r.docs # docs]
    /\ UNCHANGED <<cfg, handle, collExists, collValidator, collIndexes, nextOid, dbLog,
                   last, uin, uout>>

\* update_and_get returns the model of the reply or raises; seen is the
\* document as it is stored at that moment
UagReturn ==
    /\ inflight.pc = "replied"
    /\ LET out == IF inflight.reply.kind = "doc" THEN ToModel(inflight.reply.doc)
                  ELSE IF inflight.reply.kind = "none"
                  THEN MongoNotFoundError(inflight.i)
                  ELSE inflight.reply
       IN  /\ inflight' = [pc |-> "returned", i |-> inflight.i, u |-> inflight.u,
                           out |-> out, pre |-> inflight.pre, post |-> inflight.post,
                           wrote |-> inflight.wrote,
                           seen |-> FindById(docs, inflight.i)]
           /\ last' = Call("update_and_get", out)
    /\ UNCHANGED <<cfg, handle, collExists, collValidator, collIndexes, docs, nextOid,
                   dbLog, uin, uout>>

\* another client updates the document with identifier i, upserting or not;
\* a write after the call has returned is a write before the next call
OtherUpdate(i, u, upsert) ==
    /\ handle = "ready"
    /\ inflight.pc # "returned"
    /\ \E r \in StoreUpdateOne(docs, nextOid, IdQuery(i), u, upsert) :
            /\ Cardinality(r.docs) <= MaxDocs
            /\ docs' = r.docs
            /\ collExists' = Created(r.docs)
    /\ UNCHANGED <<cfg, handle, collValidator, collIndexes, nextOid, dbLog, last,
                   uin, uout, inflight>>

\* another client deletes the document with identifier i
OtherDelete(i) ==
    /\ handle = "ready"
    /\ inflight.pc # "returned"
    /\ \E r \in StoreDeleteOne(docs, IdQuery(i)) : docs' = r.docs
    /\ UNCHANGED <<cfg, handle, collExists, collValidator, collIndexes, nextOid, dbLog,
                   last, uin, uout, inflight>>

NextConc ==
    \/ ConstructBegin
    \/ ConstructListNames
    \/ ConstructCreateCollection
    \/ \E i \in KnownIds, u \in Updates : UagCall(i, u)
    \/ UagStore
    \/ UagReturn
    \/ \E i \in KnownIds, u \in Updates, upsert \in BOOLEAN : OtherUpdate(i, u, upsert)
    \/ \E i \in KnownIds : OtherDelete(i)

SpecConc == Init /\ [][NextConc]_vars

(***************************************************************************)
(* SpecBind: every method of the handle, each with one choice of           *)
(* arguments, for every named Model class declaration (with and without    *)
(* indexes and validator) on a database that has the collection or not.    *)
(***************************************************************************)
OneModel == [id |-> None, name |-> "n1", value |-> 100]

OneSet == [f \in {"name", "value"} |-> IF f = "name" THEN "n1" ELSE 100]

OneId == 1

InitBind ==
    /\ cfg \in {c \in Configs : c.name # ""}
    /\ collExists \in BOOLEAN
    /\ InitDb

NextBind ==
    \/ ConstructBegin
    \/ ConstructCreateIndexes
    \/ ConstructListNames
    \/ \E ok \in BOOLEAN, applied \in BOOLEAN : ConstructCollMod(ok, applied)
    \/ ConstructCreateCollection
    \/ OtherCreate
    \/ OtherDrop
    \/ InsertOne(OneModel)
    \/ InsertMany(<<OneModel>>, TRUE)
    \/ \E i \in {OneId, GenId(0)} : GetOrNone(i)
    \/ \E i \in {OneId, GenId(0)} : Get(i)
    \/ UpdateAndGet(OneId, [set |-> OneSet])
    \/ SetAndGet(OneId, OneSet)
    \/ \E upsert \in BOOLEAN : Update(OneId, [set |-> OneSet], upsert)
    \/ \E upsert \in BOOLEAN : Set(OneId, OneSet, upsert)
    \/ \E upsert \in BOOLEAN : UpdateOne(IdQuery(OneId), [set |-> OneSet], upsert)
    \/ \E upsert \in BOOLEAN : UpdateMany(IdQuery(OneId), [set |-> OneSet], upsert)
    \/ SetMany(IdQuery(OneId), OneSet)
    \/ \E p \in Pushes : SetAndPush(OneId, [f \in {"name"} |-> "n2"], p)
    \/ DeleteMany(IdQuery(OneId))
    \/ DeleteOne(IdQuery(OneId))
    \/ Delete(GenId(0))
    \/ Count(AllQuery)
    \/ Exists(AllQuery)
    \/ \E sort \in SortSpecs : Find(AllQuery, sort, 0)
    \/ \E sort \in SortSpecs : FindOne(AllQuery, sort)
    \/ DropCollection

SpecBind == InitBind /\ [][NextBind]_vars

(***************************************************************************)
(* Properties of the collection.                                           *)
(***************************************************************************)
\* no stored document has primary key i
Absent(D, i) == \A d \in D : d["_id"] # i

AsModel(m) == [kind |-> "model", model |-> m]

\* C1: round trip.  For every model m with a set identifier that is not
\* stored, once insert_one(m), or insert_many of a list containing m, has
\* succeeded, get(m.id) returns a model equal to m in every field.
C1_RoundTrip ==
    [][/\ \A m \in Models :
            (/\ last'.op = "insert_one" /\ last'.kind = "result"
             /\ docs' = insert_one(docs, nextOid, m).docs
             /\ m.id # None /\ Absent(docs, m.id))
                => get(docs', m.id) = AsModel(m)
       /\ \A ms \in BatchLists, ordered \in BOOLEAN :
            (/\ last'.op = "insert_many" /\ last'.kind = "result"
             /\ Cardinality(docs) + Len(ms) <= MaxDocs
             /\ docs' = insert_many(docs, nextOid, ms, ordered).docs)
                => \A k \in DOMAIN ms :
                    (ms[k].id # None /\ Absent(docs, ms[k].id))
                        => get(docs', ms[k].id) = AsModel(ms[k])]_vars

\* C2: write path.  The document insert_one and insert_many submit carries
\* the model's identifier under _id and has no field id; with the identifier
\* None it has neither; so every document stored from a model has no field
\* id, and has the model's identifier as _id when the model has one.
C2_WritePath ==
    [][\A m \in Models :
        (/\ last'.op = "insert_one" /\ last'.kind = "result"
         /\ docs' = insert_one(docs, nextOid, m).docs)
            => /\ "id" \notin DOMAIN SubmittedDoc(m)
               /\ m.id # None => ("_id" \in DOMAIN SubmittedDoc(m)
                                    /\ SubmittedDoc(m)["_id"] = m.id)
               /\ m.id = None => "_id" \notin DOMAIN SubmittedDoc(m)
               /\ \A d \in docs' \ docs :
                    "id" \notin DOMAIN d /\ (m.id # None => d["_id"] = m.id)]_vars

\* C3: not found.  For every identifier i with no stored document, get(i),
\* update_and_get(i, u) and set_and_get(i, f) raise MongoNotFoundError with
\* id = i and leave the stored documents as they are; get_or_none(i) returns
\* None.
C3_NotFound ==
    handle = "ready" =>
        \A i \in AllIds :
            Absent(docs, i) =>
                /\ get(docs, i) = [kind |-> "raise", error |-> "MongoNotFoundError", id |-> i]
                /\ get_or_none(docs, i) = [kind |-> "none"]
                /\ \A u \in Updates :
                    /\ update_and_get(docs, i, u).res
                        = [kind |-> "raise", error |-> "MongoNotFoundError", id |-> i]
                    /\ update_and_get(docs, i, u).docs = docs
                /\ \A f \in SetFields :
                    /\ set_and_get(docs, i, f).res
                        = [kind |-> "raise", error |-> "MongoNotFoundError", id |-> i]
                    /\ set_and_get(docs, i, f).docs = docs

\* C3 witness: update_and_get has raised MongoNotFoundError while other
\* documents are stored
C3_Witness ==
    /\ last.op = "update_and_get"
    /\ last.kind = "MongoNotFoundError"
    /\ docs # {}
    /\ \E i \in Ids : Absent(docs, i)

\* the three ways to update the document with identifier i: update(i, u),
\* set(i, u.set) and update_one({"_id": i}, u), each with the upsert flag
ById3(i, u, upsert) ==
    {update(docs, nextOid, i, u, upsert), set(docs, nextOid, i, u.set, upsert),
     update_one(docs, nextOid, IdQuery(i), u, upsert)}

\* without upsert a call on a missing identifier matches and modifies nothing
NoUpsertNoChange(i, u) ==
    \A R \in ById3(i, u, FALSE) :
        \A r \in R : r.res = UpdateResult(0, 0, None) /\ r.docs = docs

\* C4 as stated: upsert semantics.  For every identifier i with no stored
\* document, update, set and update_one on i with upsert=True report
\* matched_count 0 and upserted_id i and create exactly one document, which
\* get(i) then returns; with upsert=False they report matched_count 0 and
\* modified_count 0 and change nothing.
C4_UpsertAsStated ==
    handle = "ready" =>
        \A i \in Ids, u \in Updates :
            Absent(docs, i) =>
                /\ \A R \in ById3(i, u, TRUE) :
                    \A r \in R :
                        /\ r.res = UpdateResult(0, 0, i)
                        /\ docs \subseteq r.docs
                        /\ Cardinality(r.docs \ docs) = 1
                        /\ get(r.docs, i).kind = "model"
                /\ NoUpsertNoChange(i, u)

\* C4 amended: with upsert=True the call raises the storage layer's
\* validation error and creates nothing when the collection's validator
\* refuses the new document; otherwise it reports matched_count 0 and
\* upserted_id i and creates exactly one document, _id i plus the fields u
\* sets, which get(i) returns as a model when u sets every field the Model
\* requires and for which get(i) raises the Model's validation error when it
\* does not.  With upsert=False nothing matches and nothing changes.
C4_Upsert ==
    handle = "ready" =>
        \A i \in Ids, u \in Updates :
            Absent(docs, i) =>
                /\ \A R \in ById3(i, u, TRUE) :
                    \A r \in R :
                        IF collValidator /\ Violates(("_id" :> i) @@ u.set)
                        THEN r.res = Raise("DocumentValidationFailure") /\ r.docs = docs
                        ELSE /\ r.res = UpdateResult(0, 0, i)
                             /\ r.docs = docs \cup {("_id" :> i) @@ u.set}
                             /\ Cardinality(r.docs \ docs) = 1
                             /\ get(r.docs, i)
                                  = IF {"name", "value"} \subseteq DOMAIN u.set
                                    THEN AsModel([id |-> i, name |-> u.set["name"],
                                                  value |-> u.set["value"]])
                                    ELSE Raise("ValidationError")
                /\ NoUpsertNoChange(i, u)

\* C4 witness: an upsert through set has created the document with
\* identifier 2 next to another document, and get(2) returns it
C4_Witness ==
    /\ last.op = "set"
    /\ last.kind = "result"
    /\ Cardinality(docs) = 2
    /\ ~Absent(docs, 2)
    /\ get(docs, 2).kind = "model"

\* the database commands __init__ has issued
Issued == {dbLog[k] : k \in DOMAIN dbLog}

\* C5: constructing a MongoCollection for a Model whose collection name is
\* empty fails with a configuration error before any interaction with the
\* database: no collection is obtained or created, no index is created and
\* no validator command is issued.
C5_EmptyName ==
    /\ [](cfg.name = "" => (handle \in {"none", "failed"} /\ dbLog = <<>>))
    /\ [][(cfg.name = "" /\ handle = "none" /\ handle' # "none")
            => /\ handle' = "failed"
               /\ last'.op = "init" /\ last'.kind = "ValueError" /\ last'.calls = 0
               /\ dbLog' = <<>>
               /\ UNCHANGED <<collExists, collValidator, collIndexes, docs>>]_vars

\* C5 witness: construction has failed for a Model with an empty collection
\* name that declares indexes and a validator
C5_Witness ==
    /\ cfg.name = "" /\ cfg.indexes /\ cfg.validator
    /\ handle = "failed"
    /\ last.kind = "ValueError"

\* C6: validator registration.  With a validator declared, construction
\* asks for the collection names and then issues collMod when the collection
\* is among them (it was there, or creating the declared indexes made it)
\* and create_collection with the validator otherwise; it fails with
\* RuntimeError when the collMod reply carries no "ok"; without a validator
\* it issues neither command and leaves the validator as it is; whenever
\* construction succeeds with a validator, the collection exists and has the
\* validator when it returns, with or without declared indexes.
C6_Validator ==
    /\ [](/\ ~cfg.validator => Issued \cap {"collMod", "create_collection"} = {}
          /\ ~({"collMod", "create_collection"} \subseteq Issued)
          /\ "create_indexes" \in Issued => cfg.indexes
          /\ "reply without ok" \in Issued
                => (handle = "failed" /\ last.kind = "RuntimeError")
          /\ (handle = "ready" /\ cfg.validator)
                => Issued \cap {"collMod", "create_collection"} # {}
          /\ (handle = "ready" /\ cfg.indexes) => "create_indexes" \in Issued)
    /\ [][/\ (handle = "list_collection_names" /\ handle' # handle)
                => /\ cfg.validator
                   /\ handle' = IF collExists THEN "collMod" ELSE "create_collection"
          /\ (handle \in {"collMod", "create_collection"} /\ handle' # handle)
                => handle \in {dbLog'[k] : k \in DOMAIN dbLog'}
          /\ (handle # "ready" /\ handle' = "ready" /\ cfg.validator)
                => (collExists' /\ collValidator')
          /\ (handle # handle' /\ ~cfg.validator) => UNCHANGED collValidator]_vars

\* C6 witness: a handle constructed for a Model with indexes and a validator;
\* the validator was registered by collMod
C6_Witness ==
    /\ handle = "ready" /\ last.op = "init"
    /\ cfg.validator /\ cfg.indexes
    /\ "collMod" \in Issued
    /\ collExists /\ collValidator

\* what the storage layer raises for a document its validator refuses
Refused == Raise("DocumentValidationFailure")

\* every call that writes one document and whose resulting document violates
\* the validator raises the storage layer's error and changes nothing
SingleWritesChecked ==
    /\ \A m \in Models :
        Violates(SubmittedDoc(m))
            => /\ insert_one(docs, nextOid, m).res = Refused
               /\ insert_one(docs, nextOid, m).docs = docs
    /\ \A d \in docs, u \in Updates :
        Violates(ApplyUpdate(d, u))
            => /\ \A upsert \in BOOLEAN :
                    \A R \in ById3(d["_id"], u, upsert) :
                        \A r \in R : r.res = Refused /\ r.docs = docs
               /\ update_and_get(docs, d["_id"], u) = [docs |-> docs, res |-> Refused]
               /\ set_and_get(docs, d["_id"], u.set) = [docs |-> docs, res |-> Refused]
    /\ \A q \in Queries, u \in Updates :
        /\ (Matching(docs, q) # {}
                /\ \A d \in Matching(docs, q) : Violates(ApplyUpdate(d, u)))
            => \A r \in update_one(docs, nextOid, q, u, FALSE) :
                    r.res = Refused /\ r.docs = docs
        /\ (Matching(docs, q) = {} /\ Violates(ApplyUpdate(q, u)))
            => \A r \in update_one(docs, nextOid, q, u, TRUE)
                        \cup update_many(docs, nextOid, q, u, TRUE) :
                    r.res = Refused /\ r.docs = docs

\* C7 as stated: once the collection has been constructed with a validator,
\* every insert or update whose resulting document violates the validator is
\* refused by the storage layer, the error reaches the caller as it is, the
\* call is made once, and the stored documents are unchanged.
C7_EnforcedAsStated ==
    (handle = "ready" /\ cfg.validator) =>
        /\ SingleWritesChecked
        /\ \A ms \in BatchLists, ordered \in BOOLEAN :
            (\E k \in DOMAIN ms : Violates(SubmittedDoc(ms[k])))
                => /\ insert_many(docs, nextOid, ms, ordered).res.kind = "raise"
                   /\ insert_many(docs, nextOid, ms, ordered).docs = docs
        /\ \A q \in Queries, u \in Updates :
            (\E d \in Matching(docs, q) : Violates(ApplyUpdate(d, u)))
                => \A r \in update_many(docs, nextOid, q, u, FALSE) :
                        r.res = Refused /\ r.docs = docs
        /\ last.kind = "DocumentValidationFailure" => last.calls = 1

\* the state part of C7 amended
C7_State ==
    (handle = "ready" /\ collValidator) =>
        /\ SingleWritesChecked
        /\ \A ms \in BatchLists, ordered \in BOOLEAN :
            (\E k \in DOMAIN ms : Violates(SubmittedDoc(ms[k])))
                => /\ insert_many(docs, nextOid, ms, ordered).res = Raise("BulkWriteError")
                   /\ docs \subseteq insert_many(docs, nextOid, ms, ordered).docs
                   /\ \A d \in insert_many(docs, nextOid, ms, ordered).docs \ docs :
                        ~Violates(d)
        /\ \A q \in Queries, u \in Updates :
            (\E d \in Matching(docs, q) : Violates(ApplyUpdate(d, u)))
                => \A r \in update_many(docs, nextOid, q, u, FALSE) :
                        r.res = Refused /\ \A d \in r.docs \ docs : ~Violates(d)
        /\ last.kind = "DocumentValidationFailure" => last.calls = 1

\* C7 amended: a collection constructed with a validator keeps it until
\* drop_collection is called on the handle (no other call removes it, and
\* none registers it again); while it has it, a call that writes a single
\* document whose result violates the validator raises the storage layer's
\* error as it is, is made once and changes nothing; insert_many and
\* update_many raise too and write no violating document, but documents
\* written earlier in the same call stay written.
C7_Enforced ==
    /\ []C7_State
    /\ [][/\ (handle # "ready" /\ handle' = "ready") => (collValidator' = cfg.validator)
          /\ (collValidator /\ ~collValidator') => last'.op = "drop_collection"
          /\ (handle = "ready" /\ ~collValidator) => ~collValidator']_vars

\* C7 witness: update_one has been refused by the validator
C7_Witness ==
    /\ collValidator
    /\ last.op = "update_one"
    /\ last.kind = "DocumentValidationFailure"
    /\ docs # {}

(***************************************************************************)
(* Specification of the utility helpers: every helper on every input.      *)
(***************************************************************************)
Alphabet == {"a", "b", "-", "!", ",", " "}

Strings == UNION {[1..k -> Alphabet] : k \in 0..MaxLen}

StrArg(s) == [kind |-> "str", s |-> s]

NoneArg == [kind |-> "none"]

\* lists of (field, direction) pairs, as a caller gives them to parse_sort
PairLists ==
    UNION {[1..k -> {<<f, d>> : f \in {<<"a">>, <<"b">>}, d \in {ASCENDING, DESCENDING}}] :
             k \in 1..2}

\* the argument values of mongo_query
\* a value is its Python type and n: the number itself for an int, 0 or 1
\* for False or True, the length for a string or a collection
ArgValues ==
    {[t |-> "none", n |-> 0]}
        \cup [t : {"int", "bool", "str", "list"}, n : {0, 1}]

ArgNames == {"a", "b", "c"}

Kwargs ==
    UNION {[N -> ArgValues] : N \in {X \in SUBSET ArgNames : Cardinality(X) <= MaxArgs}}

\* every argument a helper is called with
IndexArgs == {NoneArg} \cup {StrArg(s) : s \in Strings}

SortArgs == IndexArgs \cup {[kind |-> "pairs", v |-> ps] : ps \in PairLists}

KwArgs == {[kind |-> "kwargs", kw |-> kw] : kw \in Kwargs}

\* parse_str_index_model(uin.s)
ParseStrIndexModel ==
    /\ uout = NoUtil
    /\ uin \in IndexArgs /\ uin.kind = "str"
    /\ uout' = [op |-> "parse_str_index_model", res |-> parse_str_index_model(uin.s)]
    /\ UNCHANGED <<dbVars, uin>>

\* parse_indexes(uin)
ParseIndexes ==
    /\ uout = NoUtil
    /\ uin \in IndexArgs
    /\ uout' = [op |-> "parse_indexes", res |-> parse_indexes(uin)]
    /\ UNCHANGED <<dbVars, uin>>

\* parse_sort(uin)
ParseSort ==
    /\ uout = NoUtil
    /\ uin \in SortArgs
    /\ uout' = [op |-> "parse_sort", res |-> parse_sort(uin)]
    /\ UNCHANGED <<dbVars, uin>>

\* mongo_query(**uin.kw)
MongoQuery ==
    /\ uout = NoUtil
    /\ uin \in KwArgs
    /\ uout' = [op |-> "mongo_query", res |-> mongo_query(uin.kw)]
    /\ UNCHANGED <<dbVars, uin>>

InitUtil ==
    /\ cfg = [name |-> "data", indexes |-> FALSE, validator |-> FALSE]
    /\ collExists = FALSE
    /\ handle = "none"
    /\ collValidator = FALSE
    /\ collIndexes = FALSE
    /\ docs = {}
    /\ nextOid = 0
    /\ dbLog = <<>>
    /\ last = [op |-> "none", kind |-> "none", calls |-> 0]
    /\ uin \in SortArgs \cup KwArgs
    /\ uout = NoUtil
    /\ inflight = Idle

NextUtil ==
    \/ ParseStrIndexModel
    \/ ParseIndexes
    \/ ParseSort
    \/ MongoQuery

SpecUtil == InitUtil /\ [][NextUtil]_vars

(***************************************************************************)
(* Properties of the utility helpers.                                      *)
(***************************************************************************)
FieldNames == {<<"a">>, <<"b">>}

KeyPairs == {<<f, d>> : f \in FieldNames, d \in {ASCENDING, DESCENDING}}

\* explicitly constructed index definitions: IndexModel(keys, unique=unique)
IndexDefs == [keys : UNION {[1..k -> KeyPairs] : k \in 1..2}, unique : BOOLEAN]

SingleKeyDefs == {x \in IndexDefs : Len(x.keys) = 1}

\* the compact token of a key: field, or -field when descending
KeyToken(p) == (IF p[2] = DESCENDING THEN <<"-">> ELSE <<>>) \o p[1]

\* the pieces of a list joined by a separator
RECURSIVE Join(_, _)
Join(pieces, sep) ==
    IF Len(pieces) = 1 THEN pieces[1]
    ELSE pieces[1] \o sep \o Join(Tail(pieces), sep)

\* the compact string of an explicit index definition
Compact(x) ==
    (IF x.unique THEN <<"!">> ELSE <<>>)
        \o Join([k \in DOMAIN x.keys |-> KeyToken(x.keys[k])], <<",">>)

Separators == {<<",">>, <<",", " ">>}

\* compact strings of at most MaxLen characters with the index definition,
\* the list of single-key index definitions and the list of sort pairs each
\* is the compact form of
IndexCases == {c \in {<<Compact(x), x>> : x \in IndexDefs} : Len(c[1]) <= MaxLen}

IndexListCases ==
    {c \in {<<Join([k \in DOMAIN L |-> Compact(L[k])], sep), L>> :
                L \in UNION {[1..k -> SingleKeyDefs] : k \in 1..3}, sep \in Separators} :
        Len(c[1]) <= MaxLen}

SortCases ==
    {c \in {<<Join([k \in DOMAIN P |-> KeyToken(P[k])], sep), P>> :
                P \in UNION {[1..k -> KeyPairs] : k \in 1..3}, sep \in Separators} :
        Len(c[1]) <= MaxLen}

\* C8: index-spec parsing.  Parsing the compact string of an explicit index
\* definition gives that definition: same keys in the same order, same
\* directions (-field descending, field ascending), same uniqueness (a
\* leading !); "!a,-b" is one unique index on a ascending, b descending;
\* parse_indexes gives one index per comma-separated item, in order, spaces
\* around items ignored; absent or empty input gives the empty list.
C8_IndexParsing ==
    /\ uout.op = "parse_str_index_model"
        => /\ \A c \in IndexCases : c[1] = uin.s => uout.res = c[2]
           /\ uin.s = <<"!", "a", ",", "-", "b">>
                => uout.res = [keys |-> << <<(<<"a">>), 1>>, <<(<<"b">>), 0 - 1>> >>,
                               unique |-> TRUE]
    /\ uout.op = "parse_indexes"
        => /\ uin.kind = "none" => uout.res = <<>>
           /\ (uin.kind = "str" /\ uin.s = <<>>) => uout.res = <<>>
           /\ uin.kind = "str" => \A c \in IndexListCases : c[1] = uin.s => uout.res = c[2]

\* C8 witness: parse_str_index_model("!a,-b") has returned the unique
\* compound index
C8_Witness ==
    /\ uout.op = "parse_str_index_model"
    /\ uin.s = <<"!", "a", ",", "-", "b">>
    /\ uout.res.unique
    /\ Len(uout.res.keys) = 2

\* C9: sort-spec parsing.  parse_sort of comma-separated tokens is the list
\* of (field, direction) pairs in token order, -1 for -field with the -
\* removed and 1 otherwise, spaces around tokens ignored; a list of pairs is
\* returned unchanged; None gives None.
C9_SortParsing ==
    uout.op = "parse_sort"
        => /\ uin.kind = "none" => uout.res = [kind |-> "none"]
           /\ uin.kind = "pairs" => uout.res = uin
           /\ uin.kind = "str"
                => \A c \in SortCases :
                        c[1] = uin.s => uout.res = [kind |-> "pairs", v |-> c[2]]

\* C9 witness: parse_sort("a, -b") has returned [(a, 1), (b, -1)]
C9_Witness ==
    /\ uout.op = "parse_sort"
    /\ uin.kind = "str"
    /\ uin.s = <<"a", ",", " ", "-", "b">>
    /\ uout.res.kind = "pairs"
    /\ uout.res.v = << <<(<<"a">>), 1>>, <<(<<"b">>), 0 - 1>> >>

\* a value that is neither None nor an empty string or collection
Meaningful(v) == v.t \in {"int", "bool"} \/ (v.t \in {"str", "list"} /\ v.n > 0)

\* C10: mongo_query returns exactly the named fields whose value is neither
\* None nor an empty string or collection, each with its value; the integer
\* 0 is kept.
C10_MongoQuery ==
    uout.op = "mongo_query"
        => /\ DOMAIN uout.res = {k \in DOMAIN uin.kw : Meaningful(uin.kw[k])}
           /\ \A k \in DOMAIN uout.res : uout.res[k] = uin.kw[k]
           /\ \A k \in DOMAIN uin.kw :
                uin.kw[k] = [t |-> "int", n |-> 0] => k \in DOMAIN uout.res

\* C10 witness: mongo_query(a=0, b=None) has returned {"a": 0}
C10_Witness ==
    /\ uout.op = "mongo_query"
    /\ DOMAIN uin.kw = {"a", "b"}
    /\ uin.kw["a"] = [t |-> "int", n |-> 0]
    /\ uin.kw["b"].t = "none"
    /\ DOMAIN uout.res = {"a"}

(***************************************************************************)
(* Properties of the collection: deleting, finding, dropping.              *)
(***************************************************************************)
\* what every delete call owes: only stored documents are left, and count({})
\* goes down by deleted_count
DeleteFrame(r) ==
    /\ r.docs \subseteq docs
    /\ count(r.docs, AllQuery) = count(docs, AllQuery) - r.res.deleted_count

\* C11: delete family.  delete(i) removes the document with identifier i
\* when there is one (deleted_count 1) and nothing otherwise (deleted_count
\* 0); delete_one(q) removes exactly one document matching q when one
\* matches and none otherwise; delete_many(q) removes every document
\* matching q and reports how many; the documents not removed are unchanged
\* and count({}) decreases by deleted_count.
C11_DeleteFamily ==
    handle = "ready" =>
        /\ \A i \in AllIds :
            \A r \in delete(docs, i) :
                /\ DeleteFrame(r)
                /\ IF Absent(docs, i)
                   THEN r.res.deleted_count = 0 /\ r.docs = docs
                   ELSE /\ r.res.deleted_count = 1
                        /\ r.docs = {d \in docs : d["_id"] # i}
        /\ \A q \in Queries \cup {AllQuery} :
            /\ \A r \in delete_one(docs, q) :
                /\ DeleteFrame(r)
                /\ IF Matching(docs, q) = {}
                   THEN r.res.deleted_count = 0 /\ r.docs = docs
                   ELSE /\ r.res.deleted_count = 1
                        /\ \E d \in Matching(docs, q) : r.docs = docs \ {d}
            /\ DeleteFrame(delete_many(docs, q))
            /\ delete_many(docs, q).res.deleted_count = Cardinality(Matching(docs, q))
            /\ delete_many(docs, q).docs = {d \in docs : ~Matches(d, q)}

\* C11 witness: delete_many has removed documents and left one that did not
\* match
C11_Witness ==
    /\ last.op = "delete_many"
    /\ last.kind = "result"
    /\ Cardinality(docs) = 1
    /\ \E q \in Queries : Matching(docs, q) = {}

\* the sort specifications with the field and direction each one names
SortMeaning ==
    {<<[kind |-> "str", s |-> <<"v", "a", "l", "u", "e">>], "value", 1>>,
     <<[kind |-> "str", s |-> <<"-", "v", "a", "l", "u", "e">>], "value", 0 - 1>>}

\* under sort specification sort, a document with field value x can stand
\* before one with field value y
MayPrecede(sort, a, b) ==
    \A sm \in SortMeaning :
        sm[1] = sort => IF sm[3] = 1 THEN a[sm[2]] <= b[sm[2]] ELSE a[sm[2]] >= b[sm[2]]

\* the documents c, a sequence, are what find(q, sort, limit) has to return:
\* matching documents, each once, all of them or the first limit of the order
FoundRight(c, q, sort, limit) ==
    LET M == Matching(docs, q)
    IN  /\ \A k \in DOMAIN c : c[k] \in M
        /\ \A j, k \in DOMAIN c : j # k => c[j] # c[k]
        /\ Len(c) = IF limit = 0 \/ limit > Cardinality(M) THEN Cardinality(M) ELSE limit
        /\ \A j, k \in DOMAIN c : j < k => MayPrecede(sort, c[j], c[k])
        /\ \A k \in DOMAIN c : \A d \in M \ {c[j] : j \in DOMAIN c} :
                MayPrecede(sort, c[k], d)

\* the models out.v are the models of some documents that are right
ModelsRight(out, q, sort, limit) ==
    /\ out.kind = "models"
    /\ \E c \in [DOMAIN out.v -> Matching(docs, q)] :
        /\ FoundRight(c, q, sort, limit)
        /\ \A k \in DOMAIN c : ToModel(c[k]) = AsModel(out.v[k])

FindOneRight(out, q, sort) ==
    IF Matching(docs, q) = {} THEN out = [kind |-> "none"]
    ELSE \E d \in Matching(docs, q) :
            /\ out = ToModel(d)
            /\ \A e \in Matching(docs, q) : MayPrecede(sort, d, e)

FindArgs == (Queries \cup {AllQuery}) \X SortSpecs \X Limits

\* the state part of C12: what find and find_one return
C12_Returned ==
    handle = "ready" =>
        \A a \in FindArgs :
            /\ \A out \in find(docs, a[1], a[2], a[3]) : ModelsRight(out, a[1], a[2], a[3])
            /\ \A out \in find_one(docs, a[1], a[2]) :
                /\ FindOneRight(out, a[1], a[2])
                /\ out.kind \in {"none", "model"}

\* C12: find(query, sort, limit) returns, as Models, the stored documents
\* matching query, all with limit 0 and at most limit otherwise, in the
\* order of the sort specification, a limit taking the first of that order;
\* find_one returns the first such document as a Model, or None when nothing
\* matches.  Neither call changes the stored documents.
C12_Find ==
    /\ []C12_Returned
    /\ [][last'.op \in {"find", "find_one"}
            => UNCHANGED <<docs, collExists, collValidator, collIndexes, nextOid>>]_vars

\* C13: drop_collection.  When drop_collection() has returned, count({}) is
\* 0 and the collection's name is not among the database's collection names,
\* whatever inserts and updates came before; the handle stays usable: it is
\* still ready, reads find nothing, and an insert is accepted and stores its
\* document.
C13_Drop ==
    last.op = "drop_collection" =>
        /\ last.kind = "ok"
        /\ count(docs, AllQuery) = 0
        /\ ~exists(docs, AllQuery)
        /\ ~collExists
        /\ handle = "ready"
        /\ \A i \in AllIds : get_or_none(docs, i) = [kind |-> "none"]
        /\ \A m \in Models :
            /\ insert_one(docs, nextOid, m).res.kind = "result"
            /\ count(insert_one(docs, nextOid, m).docs, AllQuery) = 1

\* C13 witness: drop_collection has returned on a collection that had a
\* validator and into which documents had been inserted
C13_Witness ==
    /\ last.op = "drop_collection"
    /\ cfg.validator
    /\ nextOid >= 1
    /\ docs = {}

(***************************************************************************)
(* Properties of the collection: setting and pushing.                      *)
(***************************************************************************)
\* what set_and_push(i, f, p) makes of the document d: the fields of f
\* assigned, each pushed value at the end of its array, the rest as it was
SetPushed(d, e, f, p) ==
    /\ DOMAIN e = DOMAIN d \cup DOMAIN f \cup DOMAIN p
    /\ e["_id"] = d["_id"]
    /\ \A k \in DOMAIN f : e[k] = f[k]
    /\ \A k \in DOMAIN p :
        /\ Len(e[k]) = (IF k \in DOMAIN d THEN Len(d[k]) ELSE 0) + 1
        /\ e[k][Len(e[k])] = p[k]
        /\ k \in DOMAIN d => SubSeq(e[k], 1, Len(d[k])) = d[k]
    /\ \A k \in DOMAIN d \ (DOMAIN f \cup DOMAIN p) : e[k] = d[k]

\* set_and_push(i, f, p) has done its update on the document with identifier
\* i, or found none and done nothing
SetPushApplied(r, i, f, p) ==
    IF Absent(docs, i)
    THEN r.res = UpdateResult(0, 0, None) /\ r.docs = docs
    ELSE /\ r.res.kind = "result"
         /\ r.res.matched_count = 1
         /\ r.res.upserted_id = None
         /\ \E d \in docs, e \in r.docs :
                /\ d["_id"] = i
                /\ SetPushed(d, e, f, p)
                /\ r.docs = (docs \ {d}) \cup {e}

\* the calls of set_and_push: an identifier, the fields to set, the values
\* to push
SetPushArgs == AllIds \X PushSets \X Pushes

\* C14 as stated: set_and_push(i, update, push) applies in one update of the
\* document with identifier i the assignments of update and the append of
\* each pushed value to the end of its array field and reports matched_count
\* 1; with no document i it reports matched_count 0 and modified_count 0; it
\* never creates a document.
C14_SetAndPushAsStated ==
    handle = "ready" =>
        \A a \in SetPushArgs :
            LET r == set_and_push(docs, a[1], a[2], a[3])
            IN  /\ SetPushApplied(r, a[1], a[2], a[3])
                /\ {e["_id"] : e \in r.docs} = {e["_id"] : e \in docs}

\* C14 amended: when a field is named by both update and push the storage
\* layer refuses the update, whether a document has identifier i or not: the
\* storage error is raised and nothing changes.  Otherwise, with no document
\* i the call reports matched_count 0 and modified_count 0 and changes
\* nothing; with a document i it raises the storage error and changes
\* nothing when a pushed field of the document is not an array or when the
\* validator refuses the resulting document, and else applies the
\* assignments and the appends in one update (a missing array is created)
\* and reports matched_count 1.  set_and_push never creates a document.
C14_SetAndPush ==
    handle = "ready" =>
        \A a \in SetPushArgs :
            LET r == set_and_push(docs, a[1], a[2], a[3])
                d == FindById(docs, a[1])
                conflict == DOMAIN a[2] \cap DOMAIN a[3] # {}
                notArray == d.kind = "doc" /\ \E k \in DOMAIN a[3] :
                                k \in DOMAIN d.doc /\ k \notin ArrayFields
                refused == d.kind = "doc" /\ collValidator
                                /\ Violates(ApplySetPush(d.doc, a[2], a[3]))
            IN  /\ IF conflict
                   THEN r.res = Raise("WriteError") /\ r.docs = docs
                   ELSE IF d.kind = "none"
                   THEN r.res = UpdateResult(0, 0, None) /\ r.docs = docs
                   ELSE IF notArray
                   THEN r.res = Raise("WriteError") /\ r.docs = docs
                   ELSE IF refused
                   THEN r.res = Raise("DocumentValidationFailure") /\ r.docs = docs
                   ELSE SetPushApplied(r, a[1], a[2], a[3])
                /\ Cardinality(r.docs) = Cardinality(docs)
                /\ {e["_id"] : e \in r.docs} = {e["_id"] : e \in docs}

\* C14 witness: set_and_push has set name and pushed twice onto the array of
\* a stored document
C14_Witness ==
    /\ last.op = "set_and_push"
    /\ last.kind = "result"
    /\ \E d \in docs :
        /\ "values" \in DOMAIN d
        /\ d["values"] = <<7, 8>>
        /\ d["name"] = "n2"

(***************************************************************************)
(* Properties of update_and_get among other clients.                       *)
(***************************************************************************)
\* update_and_get has returned the document as it stood right after the
\* update was applied to it
ReturnedPostUpdate ==
    /\ inflight.pre.kind = "doc"
    /\ inflight.post.kind = "doc"
    /\ inflight.post.doc = ApplyUpdate(inflight.pre.doc, inflight.u)
    /\ inflight.out = ToModel(inflight.post.doc)

\* update_and_get has raised not-found and modified nothing
RaisedNotFound ==
    /\ inflight.out = [kind |-> "raise", error |-> "MongoNotFoundError", id |-> inflight.i]
    /\ inflight.pre.kind = "none"
    /\ ~inflight.wrote

\* C15 as stated: update_and_get(i, u) is one atomic storage operation that
\* returns the post-update document: under every interleaving with other
\* clients' updates and deletes of i it either returns the document as it
\* stood right after u was applied, or raises not-found having modified
\* nothing; no other client's write falls between the update and the read.
C15_AtomicAsStated ==
    inflight.pc = "returned" =>
        \/ inflight.out.kind = "model" /\ ReturnedPostUpdate
        \/ RaisedNotFound

\* C15 amended: as stated, with two more outcomes.  When the validator
\* refuses the updated document the storage error is raised and nothing is
\* modified; when the updated document lacks a field the Model requires, the
\* update is applied and stays applied and the Model's validation error is
\* raised.  In every outcome the update and the read of its result are one
\* storage operation.
C15_Atomic ==
    inflight.pc = "returned" =>
        \/ inflight.out.kind = "model" /\ ReturnedPostUpdate
        \/ RaisedNotFound
        \/ /\ inflight.out = Raise("DocumentValidationFailure")
           /\ inflight.pre.kind = "doc"
           /\ collValidator
           /\ Violates(ApplyUpdate(inflight.pre.doc, inflight.u))
           /\ ~inflight.wrote
        \/ /\ inflight.out = Raise("ValidationError")
           /\ ReturnedPostUpdate
           /\ ~({"name", "value"} \subseteq DOMAIN inflight.post.doc)

\* C15 witness: update_and_get has returned the post-update document although
\* another client changed or deleted the document before the call returned
C15_Witness ==
    /\ inflight.pc = "returned"
    /\ inflight.out.kind = "model"
    /\ inflight.wrote
    /\ inflight.seen # inflight.post

(***************************************************************************)
(* Properties of the collection: the set-fields variants, the binding.     *)
(***************************************************************************)
\* C16: the set-fields variants are their general counterparts given a
\* set-fields update.  From every collection state, set_and_get(i, f) has
\* the result and effect of update_and_get(i, {"$set": f}); set(i, f, upsert)
\* those of update(i, {"$set": f}, upsert) and of
\* update_one({"_id": i}, {"$set": f}, upsert); set_many(q, f) those of
\* update_many(q, {"$set": f}) with upsert false.
C16_SetVariants ==
    handle = "ready" =>
        \A f \in SetFields :
            /\ \A i \in AllIds :
                /\ set_and_get(docs, i, f) = update_and_get(docs, i, [set |-> f])
                /\ \A upsert \in BOOLEAN :
                    /\ set(docs, nextOid, i, f, upsert)
                        = update(docs, nextOid, i, [set |-> f], upsert)
                    /\ set(docs, nextOid, i, f, upsert)
                        = update_one(docs, nextOid, IdQuery(i), [set |-> f], upsert)
            /\ \A q \in Queries \cup {AllQuery} :
                set_many(docs, nextOid, q, f)
                    = update_many(docs, nextOid, q, [set |-> f], FALSE)

\* C16 witness: set_many has returned its result while documents are stored
\* that one of the filters does not match
C16_Witness ==
    /\ last.op = "set_many"
    /\ last.kind = "result"
    /\ docs # {}
    /\ \E q \in Queries : Matching(docs, q) = {}

\* how many times __init__ issued the database command c
Times(c) == Cardinality({k \in DOMAIN dbLog : dbLog[k] = c})

\* C17: handle binding.  In every state after construction the handle's
\* Model class and collection name are those given at construction; the
\* declared indexes and the validator are applied once, during construction;
\* no CRUD call and no drop_collection on the handle creates indexes or
\* registers the validator again.
C17_Binding ==
    /\ [](handle = "ready"
            => /\ Times("get_collection") = 1
               /\ Times("create_indexes") = IF cfg.indexes THEN 1 ELSE 0
               /\ Times("collMod") + Times("create_collection")
                    = IF cfg.validator THEN 1 ELSE 0)
    /\ [][/\ cfg' = cfg
          /\ handle \in {"ready", "failed"}
                => /\ handle' = handle
                   /\ dbLog' = dbLog
                   /\ collIndexes' => collIndexes
                   /\ collValidator' => collValidator]_vars

\* C17 witness: a handle whose Model declares indexes and a validator has
\* written into the collection after dropping it; the collection is there
\* again, without the indexes and without the validator
C17_Witness ==
    /\ handle = "ready"
    /\ cfg.indexes /\ cfg.validator
    /\ last.op = "insert_many"
    /\ docs # {}
    /\ collExists /\ ~collIndexes /\ ~collValidator


====
